---------------------------- MODULE Spec2Model ----------------------------
(* Verification model of the ClaraVerse python backend (src/py_backend):   *)
(* the session/token authentication core (auth/auth.py, routes/            *)
(* auth_routes.py, db/models.py) and the similarity search of              *)
(* routes/vector_routes.py.                                                *)
(*                                                                         *)
(* Time is a discrete clock `now` counted in ticks; TicksPerSecond ticks   *)
(* make one second, so that the truncation of a JWT "exp" claim to whole   *)
(* seconds (jose converts the datetime with timegm(utctimetuple())) is a   *)
(* real conversion in the model.                                           *)
(*                                                                         *)
(* Up to NumProcs HTTP requests are served at a time, each with its own     *)
(* SQLAlchemy session (db/database.py get_db); a handler is split into one *)
(* action per database round trip that other requests can interleave with: *)
(* the queries of a handler form one step, each db.commit() another.       *)
EXTENDS Integers, Sequences, FiniteSets, Bags, TLC

----------------------------------------------------------------------------
(* Bounds of the model *)

NumProcs == 2
MaxTick == 2
MaxSessions == 3
TicksPerSecond == 2

Emails == {"a@x.com"}
\* The passwords a sign-in presents, and the one accounts are created with
Passwords == {"pw1", "wrong"}
SignUpPasswords == {"pw1"}

----------------------------------------------------------------------------
(* Configuration, auth/auth.py lines 14-17 *)

SECRET_KEY == "your-super-secret-jwt-key"
ACCESS_TOKEN_EXPIRE_MINUTES == 7 * 24 * 60
REFRESH_TOKEN_EXPIRE_DAYS == 30

\* timedelta(minutes=ACCESS_TOKEN_EXPIRE_MINUTES) and
\* timedelta(days=REFRESH_TOKEN_EXPIRE_DAYS), in ticks
AccessDelta == ACCESS_TOKEN_EXPIRE_MINUTES * 60 * TicksPerSecond
RefreshDelta == REFRESH_TOKEN_EXPIRE_DAYS * 24 * 60 * 60 * TicksPerSecond

\* The instants the clock visits: the first ticks, and one tick after the
\* access lifetime and after the refresh lifetime of a token of instant 0.
Instants == (0..MaxTick) \cup {AccessDelta + 1, RefreshDelta + 1}

----------------------------------------------------------------------------
(* Token codec: jose jwt.encode / jwt.decode with HS256 *)

\* jose stores a datetime claim as whole seconds since the epoch
ToSeconds(t) == t \div TicksPerSecond

NoToken == [sub |-> 0, email |-> "", exp |-> 0, type |-> "none", sig |-> "none"]

\* A string that is not a JWT signed with SECRET_KEY: malformed or forged
Garbage == [sub |-> 0, email |-> "", exp |-> 0, type |-> "garbage", sig |-> "none"]


create_access_token(data, t) ==
    [sub |-> data.sub, email |-> data.email,
     exp |-> ToSeconds(t + AccessDelta), type |-> "access", sig |-> SECRET_KEY]

create_refresh_token(data, t) ==
    [sub |-> data.sub, email |-> data.email,
     exp |-> ToSeconds(t + RefreshDelta), type |-> "refresh", sig |-> SECRET_KEY]

\* A decode that checks the signature and never the expiry
decode_ok_unexpiring(tok, t) == tok.sig = SECRET_KEY

\* jwt.decode: the signature must verify and "exp" must not be in the past
\* (jose raises ExpiredSignatureError, a JWTError, when exp < now in seconds)
decode_ok(tok, t) ==
    /\ tok.sig = SECRET_KEY
    /\ ~(tok.exp < ToSeconds(t))

----------------------------------------------------------------------------
(* Password hashing: passlib CryptContext(bcrypt) *)

get_password_hash(password) == [scheme |-> "bcrypt", secret |-> password]

verify_password(plain_password, hashed_password) ==
    hashed_password.secret = plain_password

NoHash == [scheme |-> "none", secret |-> ""]

----------------------------------------------------------------------------
(* State *)

VARIABLES
    now,             \* datetime.utcnow(), in ticks
    users,           \* auth.users rows
    sessions,        \* auth.sessions rows
    refresh_tokens,  \* auth.refresh_tokens rows
    nextId,          \* next fresh primary key (uuid.uuid4) of a token row
    requests,        \* the requests being served (a bag: two requests in
                     \* flight can be equal), each with its position and
                     \* the rows its database session holds
    response,        \* the HTTP response sent by the last step, if any
    issued,          \* the token pairs handed out in responses so far, each
                     \* with the refresh token it was minted from, if any
    embeddings,      \* vectors.embeddings rows
    documents,       \* vectors.documents rows
    document_chunks, \* vectors.document_chunks rows
    result,          \* the search the last step served and the rows returned
    chunker,         \* a call of chunk_text: its arguments, its locals
                     \* start and chunks, and the windows it has cut so far
    doc_ai_cache,    \* main.py doc_ai_cache: collection name -> store handle
    tasks,           \* the handlers of main.py being served, each with
                     \* its position and its local doc_ai
    instances,       \* the DocumentAI store handles constructed so far
    collections,     \* the rows of the collections table of main.py
    replies          \* the answers of the collection and document handlers
                     \* of main.py, in the order they were sent

authVars == <<now, users, sessions, refresh_tokens, nextId, requests, issued>>
vectorVars == <<embeddings, documents, document_chunks, result, chunker>>
cacheVars == <<doc_ai_cache, tasks, instances>>
storeVars == <<collections, replies>>

\* Collection names: a permanent and a temporary collection
Collections == {"default_collection", "temp_collection_1"}

\* No store handle: the name is not a key of doc_ai_cache
NoHandle == 0

\* The slots requests to main.py are served in
Procs == 1..NumProcs

NoTask ==
    [op |-> "idle", collection_name |-> "", pc |-> "idle", doc_ai |-> NoHandle]

\* No search was served by the last step
NoResult ==
    [user |-> 0, query |-> <<0, 0>>, threshold |-> 0, limit |-> 0,
     rows |-> <<>>]

\* No call of chunk_text is in progress
NoCall ==
    [pc |-> "idle", text |-> <<>>, chunk_size |-> 0, overlap |-> 0,
     start |-> 0, chunks |-> <<>>, windows |-> <<>>]

NoRow == [id |-> 0, user_id |-> 0, token |-> NoToken, expires_at |-> 0]
\* A JSON object: a set of entries with one entry per key. The column
\* default of User.metadata (models.py line 21) and the `metadata or {}` of
\* create_user (auth.py line 89) are the empty object.
EmptyObject == {}

NoUser ==
    [id |-> 0, email |-> "", encrypted_password |-> NoHash,
     metadata |-> EmptyObject]

Idle ==
    [op |-> "idle", pc |-> "idle", email |-> "", password |-> "",
     token |-> NoToken, row |-> NoRow, user |-> NoUser]

\* Another request can be taken on
CanStart == BagCardinality(requests) < NumProcs

\* The requests in flight after request r has moved on to r2, or has been
\* answered
Moved(r, r2) == (requests (-) SetToBag({r})) (+) SetToBag({r2})
Answered(r) == requests (-) SetToBag({r})
InFlight == BagToSet(requests)

Request(op, pc, email, password, token) ==
    [Idle EXCEPT !.op = op, !.pc = pc, !.email = email,
                 !.password = password, !.token = token]

\* An HTTP response with the request it answers: status code, detail of a
\* failure, and the body of an AuthResponse
Response(r, status, detail, token, refreshToken, user) ==
    [op |-> r.op, email |-> r.email, password |-> r.password,
     request_token |-> r.token,
     status |-> status, detail |-> detail, token |-> token,
     refreshToken |-> refreshToken, user |-> user]

Failure(r, status, detail) == Response(r, status, detail, NoToken, NoToken, 0)

\* No response was sent by the last step
Silent == Failure(Idle, 0, "")

\* Token strings a client can present in the body of /refresh: those it
\* was given, of either kind, and one that does not verify
Presentable ==
    {g.token : g \in issued} \cup {g.refreshToken : g \in issued}
        \cup {Garbage}

\* The bearer tokens of the Authorization header of /signout and the
\* requests to the vector store: the access tokens handed out, and
\* a string that does not verify
Bearers == {g.token : g \in issued} \cup {Garbage}

\* The bearer tokens of /validate: those, and the refresh tokens that are
\* stored, which a client may send in place of its access token
ValidateBearers == Bearers \cup {row.token : row \in refresh_tokens}

\* Requests that will still insert token rows
Creating == {"commit_user", "create_session", "refresh_commit"}

CanCreate ==
    LET creating == {r \in InFlight : r.pc \in Creating}
    IN  (nextId - 1) + BagCardinality([r \in creating |-> requests[r]])
            < MaxSessions

----------------------------------------------------------------------------
(* Credential store: queries and constraints (db/models.py) *)

\* Query.first(): a row of the result, or None
query_first(rows, none) == IF rows = {} THEN none ELSE CHOOSE r \in rows : TRUE

\* db.query(User).filter(User.email == email)
users_by_email(email) == {u \in users : u.email = email}

\* db.query(User).filter(User.id == user_id)
users_by_id(user_id) == {u \in users : u.id = user_id}

\* The session lookup without its expiry filter
live_sessions_any_age(tok, t) == {s \in sessions : s.token = tok}

\* db.query(DBSession).filter(token == tok, expires_at > utcnow())
live_sessions(tok, t) ==
    {s \in sessions : s.token = tok /\ s.expires_at > t}

\* db.query(RefreshToken).filter(token == tok, expires_at > utcnow())
live_refresh_tokens(tok, t) ==
    {r \in refresh_tokens : r.token = tok /\ r.expires_at > t}

\* db.query(DBSession).filter(DBSession.token == token)
sessions_by_token(tok) == {s \in sessions : s.token = tok}

\* A users table without the unique constraint on email
email_not_constrained(table, row) == TRUE

\* User.email: Column(String(255), unique=True); an INSERT that breaks the
\* constraint raises IntegrityError
email_unique(table, row) == \A u \in table : u.email # row.email

\* A token table without the unique constraint on token
token_not_constrained(table, row) == TRUE

\* Session.token / RefreshToken.token: Column(String(255), unique=True)
token_unique(table, row) == \A r \in table : r.token # row.token

\* A create_session that writes the primary key of the row where the id of
\* the user belongs
new_session_keyed_by_row(user, t, id) ==
    LET data == [sub |-> user.id, email |-> user.email]
        access_token == create_access_token(data, t)
        refresh_token == create_refresh_token(data, t)
    IN  [token |-> access_token,
         refreshToken |-> refresh_token,
         db_session |-> [id |-> id, user_id |-> id,
                         token |-> access_token,
                         expires_at |-> t + AccessDelta],
         db_refresh |-> [id |-> id, user_id |-> id,
                         token |-> refresh_token,
                         expires_at |-> t + RefreshDelta]]

\* The two rows and the two token strings create_session builds for `user`
\* at instant t; id is the fresh primary key (uuid4) of the rows
new_session(user, t, id) ==
    LET data == [sub |-> user.id, email |-> user.email]
        access_token == create_access_token(data, t)
        refresh_token == create_refresh_token(data, t)
    IN  [token |-> access_token,
         refreshToken |-> refresh_token,
         db_session |-> [id |-> id, user_id |-> user.id,
                         token |-> access_token,
                         expires_at |-> t + AccessDelta],
         db_refresh |-> [id |-> id, user_id |-> user.id,
                         token |-> refresh_token,
                         expires_at |-> t + RefreshDelta]]

\* A create_session that stores the refresh token string in the Session row
add_db_session_of_refresh(table, s) ==
    table \cup {[s.db_session EXCEPT !.token = s.refreshToken]}

\* create_session, lines 122-127: db.add(db_session), as committed at 137
add_db_session(table, s) == table \cup {s.db_session}

\* A create_session that builds db_refresh and never adds it
add_db_refresh_forgotten(table, s) == table

\* create_session, lines 130-135: db.add(db_refresh), as committed at 137
add_db_refresh(table, s) == table \cup {s.db_refresh}

\* A request that applies its pending DELETE although its commit failed
close_applies_delete(table, deleted) == table \ deleted

\* get_db's finally: db.close() ends the request's transaction; what the
\* request has not committed, here the rows in `deleted`, is rolled back
close_uncommitted(table, deleted) == table

\* The flush of create_session's two INSERTs passes the unique constraints.
\* The unit of work emits INSERTs before DELETEs, so a row deleted in the
\* same transaction still counts.
inserts_ok(s) ==
    /\ token_unique(sessions, s.db_session)
    /\ token_unique(refresh_tokens, s.db_refresh)

\* AuthService.authenticate_user: the user, or None
authenticate_user(email, password) ==
    LET found == users_by_email(email)
        user == CHOOSE u \in found : TRUE
    IN  IF found = {} THEN NoUser
        ELSE IF ~verify_password(password, user.encrypted_password) THEN NoUser
        ELSE user

\* A refresh that trusts every token that decodes: no type check, no lookup
\* of the RefreshToken row
refresh_check_stateless(tok, t) ==
    IF ~decode_ok(tok, t)
    THEN [status |-> 401, detail |-> "Could not validate credentials"]
    ELSE IF users_by_id(tok.sub) = {}
    THEN [status |-> 404, detail |-> "User not found"]
    ELSE [status |-> 0, detail |-> ""]

\* AuthService.refresh_access_token, lines 193-222: the failure raised
\* before any write, or status 0 when the refresh goes on to its writes
refresh_check(tok, t) ==
    IF ~decode_ok(tok, t)
    THEN [status |-> 401, detail |-> "Could not validate credentials"]
    ELSE IF tok.type # "refresh"
    THEN [status |-> 401, detail |-> "Invalid token type"]
    ELSE IF live_refresh_tokens(tok, t) = {}
    THEN [status |-> 401, detail |-> "Invalid or expired refresh token"]
    ELSE IF users_by_id(tok.sub) = {}
    THEN [status |-> 404, detail |-> "User not found"]
    ELSE [status |-> 0, detail |-> ""]

\* A validation that trusts every token that decodes: no lookup of the
\* Session row
get_current_user_stateless(tok, t) ==
    IF ~decode_ok(tok, t)
    THEN [status |-> 401, detail |-> "Could not validate credentials", user |-> NoUser]
    ELSE IF users_by_id(tok.sub) = {}
    THEN [status |-> 404, detail |-> "User not found", user |-> NoUser]
    ELSE [status |-> 200, detail |-> "",
          user |-> CHOOSE u \in users_by_id(tok.sub) : TRUE]

\* AuthService.get_current_user: the outcome of validating a bearer token
get_current_user(tok, t) ==
    IF ~decode_ok(tok, t)
    THEN [status |-> 401, detail |-> "Could not validate credentials", user |-> NoUser]
    ELSE IF live_sessions(tok, t) = {}
    THEN [status |-> 401, detail |-> "Session expired or invalid", user |-> NoUser]
    ELSE IF users_by_id(tok.sub) = {}
    THEN [status |-> 404, detail |-> "User not found", user |-> NoUser]
    ELSE [status |-> 200, detail |-> "",
          user |-> CHOOSE u \in users_by_id(tok.sub) : TRUE]

----------------------------------------------------------------------------
(* Initial state: an empty credential store, no request in progress *)

AuthInit ==
    /\ now = 0
    /\ users = {}
    /\ sessions = {}
    /\ refresh_tokens = {}
    /\ nextId = 1
    /\ requests = EmptyBag
    /\ response = Silent
    /\ issued = {}
    /\ embeddings = {}
    /\ documents = {}
    /\ document_chunks = {}
    /\ result = NoResult
    /\ chunker = NoCall
    /\ doc_ai_cache = [c \in Collections |-> NoHandle]
    /\ tasks = [p \in Procs |-> NoTask]
    /\ instances = {}
    /\ collections = {}
    /\ replies = <<>>

----------------------------------------------------------------------------
(* POST /signup: sign_up -> AuthService.create_user, create_session *)

\* create_user up to db.add(user): the existence check
create_user(email, password) ==
    /\ CanStart
    /\ CanCreate
    /\ LET req == Request("signup", "commit_user", email, password, NoToken)
       IN  IF users_by_email(email) # {}
           THEN /\ response' = Failure(req, 400, "User already exists")
                /\ requests' = requests
           ELSE /\ response' = Silent
                /\ requests' = requests (+) SetToBag({req})
    /\ UNCHANGED <<now, users, sessions, refresh_tokens, nextId, issued>>
    /\ UNCHANGED vectorVars
    /\ UNCHANGED cacheVars
    /\ UNCHANGED storeVars

\* create_user's db.commit(): the INSERT of the user row. Any exception but
\* HTTPException becomes a 500 in sign_up (auth_routes.py lines 46-50).
create_user_commit(r) ==
    /\ r \in InFlight
    /\ r.pc = "commit_user"
    /\ \E up \in BOOLEAN :
         LET user == [id |-> Cardinality(users) + 1,
                      email |-> r.email,
                      encrypted_password |-> get_password_hash(r.password),
                      metadata |-> EmptyObject]
         IN  IF up /\ email_unique(users, user)
             THEN /\ users' = users \cup {user}
                  /\ response' = Silent
                  /\ requests' =
                        Moved(r, [r EXCEPT !.pc = "create_session",
                                           !.user = user])
             ELSE /\ users' = users
                  /\ response' = Failure(r, 500, IF up THEN "IntegrityError"
                                                       ELSE "OperationalError")
                  /\ requests' = Answered(r)
    /\ UNCHANGED <<now, sessions, refresh_tokens, nextId, issued>>
    /\ UNCHANGED vectorVars
    /\ UNCHANGED cacheVars
    /\ UNCHANGED storeVars

\* AuthService.create_session as called by sign_up and sign_in: both tokens
\* are built from the clock, both rows are added and committed together.
\* A failing commit reaches the client as a 500 (sign_up lines 46-50, the
\* exception middleware of main.py for sign_in).
create_session(r) ==
    /\ r \in InFlight
    /\ r.pc = "create_session"
    /\ \E up \in BOOLEAN :
         LET s == new_session(r.user, now, nextId)
         IN  IF up /\ inserts_ok(s)
             THEN /\ sessions' = add_db_session(sessions, s)
                  /\ refresh_tokens' = add_db_refresh(refresh_tokens, s)
                  /\ nextId' = nextId + 1
                  /\ issued' = issued \cup
                        {[token |-> s.token, refreshToken |-> s.refreshToken,
                          via |-> NoToken]}
                  /\ response' = Response(r, 200, "", s.token, s.refreshToken,
                                          r.user.id)
             ELSE /\ UNCHANGED <<sessions, refresh_tokens, nextId, issued>>
                  /\ response' = Failure(r, 500, IF up THEN "IntegrityError"
                                                       ELSE "OperationalError")
    /\ requests' = Answered(r)
    /\ UNCHANGED <<now, users>>
    /\ UNCHANGED vectorVars
    /\ UNCHANGED cacheVars
    /\ UNCHANGED storeVars

----------------------------------------------------------------------------
(* POST /signin: sign_in -> AuthService.authenticate_user, create_session *)

\* A sign_in that tells an unknown email from a wrong password
sign_in_denied_leaky(req) ==
    IF users_by_email(req.email) = {}
    THEN Failure(req, 404, "User not found")
    ELSE Failure(req, 401, "Invalid credentials")

\* sign_in lines 57-62: the one response to a failed authentication
sign_in_denied(req) == Failure(req, 401, "Invalid credentials")

sign_in(email, password) ==
    /\ CanStart
    /\ CanCreate
    /\ LET req == Request("signin", "create_session", email, password, NoToken)
           user == authenticate_user(email, password)
       IN  IF user = NoUser
           THEN /\ response' = sign_in_denied(req)
                /\ requests' = requests
           ELSE /\ response' = Silent
                /\ requests' =
                      requests (+) SetToBag({[req EXCEPT !.user = user]})
    /\ UNCHANGED <<now, users, sessions, refresh_tokens, nextId, issued>>
    /\ UNCHANGED vectorVars
    /\ UNCHANGED cacheVars
    /\ UNCHANGED storeVars

----------------------------------------------------------------------------
(* POST /refresh: refresh_token -> AuthService.refresh_access_token *)

\* Lines 193-222: decode, type check, lookup of the row and of the user,
\* which db_refresh and user then hold
refresh_access_token(tok) ==
    /\ CanStart
    /\ CanCreate
    /\ tok \in Presentable
    /\ LET req == Request("refresh", "refresh_commit", "", "", tok)
           out == refresh_check(tok, now)
       IN  IF out.status # 0
           THEN /\ response' = Failure(req, out.status, out.detail)
                /\ requests' = requests
           ELSE /\ response' = Silent
                /\ requests' = requests (+) SetToBag({
                      [req EXCEPT
                         !.row = query_first(live_refresh_tokens(tok, now), NoRow),
                         !.user = query_first(users_by_id(tok.sub), NoUser)]})
    /\ UNCHANGED <<now, users, sessions, refresh_tokens, nextId, issued>>
    /\ UNCHANGED vectorVars
    /\ UNCHANGED cacheVars
    /\ UNCHANGED storeVars

\* Lines 224-228 and create_session's commit: db.delete(db_refresh), the two
\* INSERTs and the commit are one transaction. A DELETE that matches no row
\* (the row was deleted by another request meanwhile) only warns.
refresh_commit(r) ==
    /\ r \in InFlight
    /\ r.pc = "refresh_commit"
    /\ \E up \in BOOLEAN :
         LET s == new_session(r.user, now, nextId)
         IN  IF up /\ inserts_ok(s)
             THEN /\ sessions' = add_db_session(sessions, s)
                  /\ refresh_tokens' =
                        add_db_refresh(refresh_tokens \ {r.row}, s)
                  /\ nextId' = nextId + 1
                  /\ issued' = issued \cup
                        {[token |-> s.token, refreshToken |-> s.refreshToken,
                          via |-> r.token]}
                  /\ response' = Response(r, 200, "", s.token, s.refreshToken,
                                          r.user.id)
             ELSE /\ refresh_tokens' = close_uncommitted(refresh_tokens, {r.row})
                  /\ UNCHANGED <<sessions, nextId, issued>>
                  /\ response' = Failure(r, 500, IF up THEN "IntegrityError"
                                                       ELSE "OperationalError")
    /\ requests' = Answered(r)
    /\ UNCHANGED <<now, users>>
    /\ UNCHANGED vectorVars
    /\ UNCHANGED cacheVars
    /\ UNCHANGED storeVars

----------------------------------------------------------------------------
(* POST /signout: sign_out -> AuthService.logout *)

\* A logout that treats a missing Session row as an error
signed_out_or_missing(req) ==
    IF req.row = NoRow
    THEN Failure(req, 404, "Session not found")
    ELSE Response(req, 200, "Successfully signed out", NoToken, NoToken, 0)

\* sign_out, lines 72-74: logout returns None, whether or not it found a
\* row, and the route answers with the same message
signed_out(req) ==
    Response(req, 200, "Successfully signed out", NoToken, NoToken, 0)

\* Line 233: the lookup of the session row, by token string only
logout(tok) ==
    /\ CanStart
    /\ tok \in Bearers
    /\ LET req == Request("signout", "logout_commit", "", "", tok)
           found == sessions_by_token(tok)
       IN  IF found = {}
           THEN /\ response' = signed_out(req)
                /\ requests' = requests
           ELSE /\ response' = Silent
                /\ requests' = requests (+) SetToBag({
                      [req EXCEPT !.row = CHOOSE s \in found : TRUE]})
    /\ UNCHANGED <<now, users, sessions, refresh_tokens, nextId, issued>>
    /\ UNCHANGED vectorVars
    /\ UNCHANGED cacheVars
    /\ UNCHANGED storeVars

\* A logout that commits without deleting the row
delete_skipped(table, row) == table

\* Line 235: db.delete(session), as committed at 236
delete(table, row) == table \ {row}

\* Lines 235-236: db.delete(session); db.commit()
logout_commit(r) ==
    /\ r \in InFlight
    /\ r.pc = "logout_commit"
    /\ \E up \in BOOLEAN :
             IF up
             THEN /\ sessions' = delete(sessions, r.row)
                  /\ response' = signed_out(r)
             ELSE /\ sessions' = sessions
                  /\ response' = Failure(r, 500, "OperationalError")
    /\ requests' = Answered(r)
    /\ UNCHANGED <<now, users, refresh_tokens, nextId, issued>>
    /\ UNCHANGED vectorVars
    /\ UNCHANGED cacheVars
    /\ UNCHANGED storeVars

----------------------------------------------------------------------------
(* GET /validate: validate_session -> get_current_user *)

validate_session(tok) ==
    /\ CanStart
    /\ tok \in ValidateBearers
    /\ LET req == Request("validate", "validate", "", "", tok)
           out == get_current_user(tok, now)
       IN  response' = Response(req, out.status, out.detail, NoToken, NoToken,
                                out.user.id)
    /\ UNCHANGED <<now, users, sessions, refresh_tokens, nextId, requests, issued>>
    /\ UNCHANGED vectorVars
    /\ UNCHANGED cacheVars
    /\ UNCHANGED storeVars

----------------------------------------------------------------------------
(* The clock *)

Tick ==
    /\ \E t \in Instants :
         /\ t > now
         /\ \A u \in Instants : u > now => t <= u
         /\ now' = t
    /\ response' = Silent
    /\ UNCHANGED <<users, sessions, refresh_tokens, nextId, requests, issued>>
    /\ UNCHANGED vectorVars
    /\ UNCHANGED cacheVars
    /\ UNCHANGED storeVars

----------------------------------------------------------------------------

vars ==
    <<now, users, sessions, refresh_tokens, nextId, requests, response, issued,
      embeddings, documents, document_chunks, result, chunker,
      doc_ai_cache, tasks, instances, collections, replies>>

Init == AuthInit

Next ==
    \/ \E e \in Emails, pw \in SignUpPasswords : create_user(e, pw)
    \/ \E r \in InFlight : create_user_commit(r)
    \/ \E r \in InFlight : create_session(r)
    \/ \E e \in Emails, pw \in Passwords : sign_in(e, pw)
    \/ \E tok \in Presentable : refresh_access_token(tok)
    \/ \E r \in InFlight : refresh_commit(r)
    \/ \E tok \in Bearers : logout(tok)
    \/ \E r \in InFlight : logout_commit(r)
    \/ \E tok \in ValidateBearers : validate_session(tok)
    \/ Tick

Spec == Init /\ [][Next]_vars

----------------------------------------------------------------------------
(* Vector store, routes/vector_routes.py *)

\* Bounds of the vector store model
MaxRows == 2
\* SearchRequest.limit: 1, and the default 5
Limits == {1, 5}

\* Embedding vectors the provider returns for stored texts and for queries:
\* integer vectors of dimension 2 with integer norms; a cosine similarity
\* is counted in whole hundredths, rounded down. Against the query
\* <<4, 3>> the stored vectors have similarities 0.80 (exactly) and 0.93,
\* against <<12, 5>> they have 0.92 and 0.81.
StoredVectors == {<<1, 0>>, <<28, 45>>}
QueryVectors == {<<4, 3>>, <<12, 5>>}

\* SearchRequest.threshold in hundredths: the default 0.8, and 0.5
Thresholds == {80, 50}

\* Texts, as sequences of characters
NL == "\n"
Whitespace == {" ", NL, "\t"}
Contents == {<<" ", "a", ".">>}

\* chunk_text's default parameters
DEFAULT_CHUNK_SIZE == 1000
DEFAULT_OVERLAP == 200

Max(a, b) == IF a >= b THEN a ELSE b
Min(a, b) == IF a <= b THEN a ELSE b

\* A slice bound as python reads it for a string of length n: a negative
\* bound counts from the end, and both are clamped to 0..n
SliceIndex(i, n) == IF i < 0 THEN Max(n + i, 0) ELSE Min(i, n)

\* text.rfind(ch, start, end): the highest 0-based index in [start, end)
\* holding ch, or -1
rfind(text, ch, start, end) ==
    LET from == SliceIndex(start, Len(text))
        to == SliceIndex(end, Len(text))
        idx == {i \in from..(to - 1) : text[i + 1] = ch}
    IN  IF idx = {} THEN -1 ELSE CHOOSE i \in idx : \A j \in idx : j <= i

\* text[start:end]
Slice(text, start, end) ==
    LET from == SliceIndex(start, Len(text))
        to == SliceIndex(end, Len(text))
    IN  IF from < to THEN SubSeq(text, from + 1, to) ELSE <<>>

\* A strip that removes nothing
strip_nothing(text) == text

\* str.strip()
strip(text) ==
    LET keep == {i \in 1..Len(text) : text[i] \notin Whitespace}
        first == CHOOSE i \in keep :
                    \A j \in 1..(i - 1) : text[j] \in Whitespace
        last == CHOOSE i \in keep :
                   \A j \in (i + 1)..Len(text) : text[j] \in Whitespace
    IN  IF keep = {} THEN <<>> ELSE SubSeq(text, first, last)

\* A test that also takes a break point exactly chunk_size - overlap
\* characters into the window
break_at_or_after(break_point, start, chunk_size, overlap) ==
    break_point >= start + chunk_size - overlap

\* Line 88: the break point is far enough into the window to cut there
break_late_enough(break_point, start, chunk_size, overlap) ==
    break_point > start + chunk_size - overlap

\* Lines 80-89: the end of the window that starts at `start`
window_end(text, chunk_size, overlap, start) ==
    LET end == start + chunk_size
        last_period == rfind(text, ".", start, end)
        last_newline == rfind(text, NL, start, end)
        break_point == Max(last_period, last_newline)
    IN  IF /\ end < Len(text)
           /\ break_late_enough(break_point, start, chunk_size, overlap)
        THEN break_point + 1
        ELSE end

\* A loop that keeps the chunk of every window, also an empty one
with_chunk_unfiltered(chunks, text, start, end) ==
    Append(chunks, strip(Slice(text, start, end)))

\* Lines 91-93: chunks after the window [start, end) has been handled
with_chunk(chunks, text, start, end) ==
    LET chunk == strip(Slice(text, start, end))
    IN  IF chunk # <<>> THEN Append(chunks, chunk) ELSE chunks

\* A loop that starts the next window where the last one ended
next_start_at_end(end, overlap) == end

\* Line 95: the start of the next window
next_start(end, overlap) == end - overlap

RECURSIVE chunk_loop(_, _, _, _, _)
\* The while loop of chunk_text, from window start `start`
chunk_loop(text, chunk_size, overlap, start, chunks) ==
    IF ~(start < Len(text)) THEN chunks
    ELSE LET end == window_end(text, chunk_size, overlap, start)
         IN  chunk_loop(text, chunk_size, overlap, next_start(end, overlap),
                        with_chunk(chunks, text, start, end))

chunk_text(text, chunk_size, overlap) ==
    chunk_loop(text, chunk_size, overlap, 0, <<>>)

Dot(a, b) == a[1] * b[1] + a[2] * b[2]
Norm(a) == CHOOSE n \in 0..Dot(a, a) : n * n = Dot(a, a)

\* 1 - (embedding <=> :embedding), the cosine similarity, in hundredths
Similarity(a, b) == (100 * Dot(a, b)) \div (Norm(a) * Norm(b))

\* A WHERE clause that also lets through a row whose similarity equals the
\* threshold
at_or_above_threshold(similarity, threshold) == similarity >= threshold

\* WHERE 1 - (embedding <=> :embedding::vector) > :threshold
above_threshold(similarity, threshold) == similarity > threshold

\* auth.py get_current_user_optional: the user, or None when the
\* validation raised
get_current_user_optional(tok, t) ==
    LET out == get_current_user(tok, t)
    IN  IF out.status = 200 THEN out.user ELSE NoUser

\* The optional clause " AND user_id = :user_id" of both searches, with no
\* restriction on the rows
owner_clause_dropped(user_id, current_user) == TRUE

\* The optional clause " AND user_id = :user_id" of both searches
owner_clause(user_id, current_user) ==
    current_user = NoUser \/ user_id = current_user.id

\* A query that cuts to :limit rows before it orders them
RankedAfterLimit(qualifying, limit) ==
    LET n == Min(limit, Cardinality(qualifying))
    IN  {seq \in [1..n -> qualifying] :
            \A i, j \in 1..n : i < j =>
                /\ seq[i] # seq[j]
                /\ seq[i].similarity >= seq[j].similarity}

\* ORDER BY similarity DESC LIMIT :limit over the qualifying rows: every
\* order the database may return them in (ties are in no fixed order)
Ranked(qualifying, limit) ==
    LET n == Min(limit, Cardinality(qualifying))
    IN  {seq \in [1..n -> qualifying] :
            /\ \A i, j \in 1..n : i < j =>
                  /\ seq[i] # seq[j]
                  /\ seq[i].similarity >= seq[j].similarity
            /\ \A c \in qualifying :
                  (\A i \in 1..n : seq[i] # c) =>
                      \A i \in 1..n : seq[i].similarity >= c.similarity}

\* The primary key of a new row (uuid.uuid4: one no stored row has)
fresh_id(table) ==
    CHOOSE m \in 1..(Cardinality(table) + 1) :
       /\ \A r \in table : r.id # m
       /\ \A k \in 1..(m - 1) : \E r \in table : r.id = k

\* The primary keys of n new rows
fresh_ids(table, n) ==
    LET free == (1..(Cardinality(table) + n)) \ {r.id : r \in table}
    IN  [i \in 1..n |->
           CHOOSE m \in free : Cardinality({k \in free : k < m}) = i - 1]

RowCount == Cardinality(embeddings) + Cardinality(documents)

Served(op, tok) == Request(op, op, "", "", tok)

\* The credentials of a search: a bearer token, or no Authorization header
\* at all (NoToken)
Credentials == Bearers \cup {NoToken}

\* POST /documents: add_document
add_document(tok, content, embedding) ==
    /\ tok \in Bearers
    /\ RowCount < MaxRows
    /\ LET req == Served("add_document", tok)
           auth == get_current_user(tok, now)
       IN  IF auth.status # 200
           THEN /\ response' = Failure(req, auth.status, auth.detail)
                /\ embeddings' = embeddings
           ELSE \E outcome \in {"ok", "provider", "storage"} :
                  IF outcome = "ok"
                  THEN /\ embeddings' = embeddings \cup
                             {[id |-> fresh_id(embeddings),
                               user_id |-> auth.user.id,
                               content |-> content,
                               embedding |-> embedding]}
                       /\ response' = Response(req, 200, "", NoToken, NoToken,
                                               auth.user.id)
                  ELSE /\ embeddings' = embeddings
                       /\ response' = Failure(req, 500,
                             IF outcome = "provider"
                             THEN "Failed to create embedding"
                             ELSE "OperationalError")
    /\ result' = NoResult
    /\ UNCHANGED <<documents, document_chunks, chunker>>
    /\ UNCHANGED authVars
    /\ UNCHANGED cacheVars
    /\ UNCHANGED storeVars

\* Contents stored as chunked documents besides the short one, which
\* makes one chunk: nothing (no chunk), and 1100 letters (two chunks, of
\* 1000 and of 300 letters)
LargeContents == {<<>>, [i \in 1..1100 |-> "a"]}

\* Lines 154 and 361: chunk_text(content), with its default parameters, of
\* each content a request may carry
Chunked ==
    [content \in Contents \cup LargeContents |->
        chunk_text(content, DEFAULT_CHUNK_SIZE, DEFAULT_OVERLAP)]

\* What the provider returns for the chunks of a content: an embedding for
\* each, or for the first chunks only when it fails on the one after them
ProviderRuns(content, vectors) ==
    UNION {[1..n -> vectors] : n \in 0..Len(Chunked[content])}

\* A db.flush() whose INSERT other transactions can see at once
flush_commits(table, row) == table \cup {row}

\* db.flush(), lines 151 and 358: the INSERT of the document row is sent
\* inside the transaction of the request; the table as other requests see
\* it does not change before the commit
flush(table, row) == table

\* Chunk rows numbered from 1
chunk_records_from_one(doc, chunks, chunk_embeddings, ids) ==
    {[id |-> ids[i],
      document_id |-> doc.id,
      chunk_index |-> i,
      content |-> chunks[i],
      embedding |-> chunk_embeddings[i]] : i \in 1..Len(chunk_embeddings)}

\* Lines 157-167 and 362-372: the DocumentChunk rows added for the chunks
\* the provider has returned an embedding for; enumerate counts from 0
chunk_records(doc, chunks, chunk_embeddings, ids) ==
    {[id |-> ids[i],
      document_id |-> doc.id,
      chunk_index |-> i - 1,
      content |-> chunks[i],
      embedding |-> chunk_embeddings[i]] : i \in 1..Len(chunk_embeddings)}

\* The body shared by add_large_document (lines 141-171) and
\* upload_file_for_vectorization (lines 348-376): the document row is
\* added and flushed, the content is chunked, an embedding is requested for
\* each chunk in turn and its row added, and all rows are committed
\* together. chunk_embeddings is what the provider returns, chunk after
\* chunk: when it is shorter than chunks, create_embedding has raised for
\* the next chunk and the request ends there; get_db closes its session,
\* which rolls back what was flushed.
store_chunked(req, tok, content, chunk_embeddings) ==
    /\ tok \in Bearers
    /\ RowCount < MaxRows
    /\ LET auth == get_current_user(tok, now)
           doc == [id |-> fresh_id(documents), user_id |-> auth.user.id,
                   content |-> content]
           chunks == Chunked[content]
           flushed == flush(documents, doc)
           records == chunk_records(doc, chunks, chunk_embeddings,
                         fresh_ids(document_chunks, Len(chunk_embeddings)))
       IN  /\ Len(chunk_embeddings) <= Len(chunks)
           /\ IF auth.status # 200
              THEN /\ chunk_embeddings = <<>>
                   /\ response' = Failure(req, auth.status, auth.detail)
                   /\ UNCHANGED <<documents, document_chunks>>
              ELSE IF Len(chunk_embeddings) < Len(chunks)
              THEN /\ response' = Failure(req, 500, "Failed to create embedding")
                   /\ documents' = close_uncommitted(flushed, {doc})
                   /\ document_chunks' = document_chunks
              ELSE \E up \in BOOLEAN :
                     IF up
                     THEN /\ documents' = documents \cup {doc}
                          /\ document_chunks' = document_chunks \cup records
                          /\ response' = Response(req, 200, "", NoToken,
                                                  NoToken, auth.user.id)
                     ELSE /\ documents' = close_uncommitted(flushed, {doc})
                          /\ document_chunks' = document_chunks
                          /\ response' = Failure(req, 500, "OperationalError")
    /\ result' = NoResult
    /\ UNCHANGED <<embeddings, chunker>>
    /\ UNCHANGED authVars
    /\ UNCHANGED cacheVars
    /\ UNCHANGED storeVars

\* POST /documents/large: add_large_document
add_large_document(tok, content, chunk_embeddings) ==
    store_chunked(Served("add_large_document", tok), tok, content,
                  chunk_embeddings)

\* POST /upload: upload_file_for_vectorization, content being the decoded
\* text of the file
upload_file_for_vectorization(tok, content, chunk_embeddings) ==
    store_chunked(Served("upload", tok), tok, content, chunk_embeddings)

\* A delete of the document row that leaves its chunk rows behind
cascade_none(table, document_id) == table

\* Document.chunks: relationship(cascade="all, delete-orphan"), and
\* DocumentChunk.document_id: ForeignKey(ondelete="CASCADE"): the chunk rows
\* of a deleted document are deleted with it
cascade(table, document_id) == {c \in table : c.document_id # document_id}

\* db.query(Document).filter(id == document_id, user_id == current_user.id)
documents_of(document_id, user_id) ==
    {d \in documents : d.id = document_id /\ d.user_id = user_id}

\* DELETE /documents/large/{document_id}: delete_large_document
delete_large_document(tok, document_id) ==
    /\ tok \in Bearers
    /\ LET req == Served("delete_large_document", tok)
           auth == get_current_user(tok, now)
           doc == query_first(documents_of(document_id, auth.user.id), NoRow)
       IN  IF auth.status # 200
           THEN /\ response' = Failure(req, auth.status, auth.detail)
                /\ UNCHANGED <<documents, document_chunks>>
           ELSE IF doc = NoRow
           THEN /\ response' = Failure(req, 404, "Document not found")
                /\ UNCHANGED <<documents, document_chunks>>
           ELSE \E up \in BOOLEAN :
                  IF up
                  THEN /\ documents' = delete(documents, doc)
                       /\ document_chunks' = cascade(document_chunks, doc.id)
                       /\ response' = Response(req, 200,
                             "Document deleted successfully", NoToken, NoToken,
                             auth.user.id)
                  ELSE /\ UNCHANGED <<documents, document_chunks>>
                       /\ response' = Failure(req, 500, "OperationalError")
    /\ result' = NoResult
    /\ UNCHANGED <<embeddings, chunker>>
    /\ UNCHANGED authVars
    /\ UNCHANGED cacheVars
    /\ UNCHANGED storeVars

\* What a search answers: HTTPBearer refuses a request without credentials;
\* otherwise the qualifying rows, ranked and cut, as SearchResult rows
search(req, tok, current_user, query_embedding, threshold, limit, qualifying) ==
    IF tok = NoToken
    THEN /\ response' = Failure(req, 403, "Not authenticated")
         /\ result' = NoResult
    ELSE \E provider_up \in BOOLEAN :
           IF ~provider_up
           THEN /\ response' = Failure(req, 500, "Failed to create embedding")
                /\ result' = NoResult
           ELSE \E ranking \in Ranked(qualifying, limit) :
                  /\ response' = Response(req, 200, "", NoToken, NoToken, 0)
                  /\ result' =
                        [user |-> current_user.id,
                         query |-> query_embedding,
                         threshold |-> threshold,
                         limit |-> limit,
                         rows |-> [i \in 1..Len(ranking) |->
                                     [id |-> ranking[i].id,
                                      content |-> ranking[i].content,
                                      distance |-> 100 - ranking[i].similarity]]]

\* POST /search: search_documents
search_documents(tok, query_embedding, threshold, limit) ==
    /\ tok \in Credentials
    /\ LET current_user == get_current_user_optional(tok, now)
           qualifying ==
              {[id |-> e.id, content |-> e.content,
                similarity |-> Similarity(e.embedding, query_embedding)] :
                 e \in {e \in embeddings :
                          /\ above_threshold(
                                Similarity(e.embedding, query_embedding),
                                threshold)
                          /\ owner_clause(e.user_id, current_user)}}
       IN  search(Served("search", tok), tok, current_user, query_embedding,
                  threshold, limit, qualifying)
    /\ UNCHANGED <<embeddings, documents, document_chunks, chunker>>
    /\ UNCHANGED authVars
    /\ UNCHANGED cacheVars
    /\ UNCHANGED storeVars

\* POST /search/chunks: search_document_chunks
search_document_chunks(tok, query_embedding, threshold, limit) ==
    /\ tok \in Credentials
    /\ LET current_user == get_current_user_optional(tok, now)
           joined == {<<c, d>> \in document_chunks \X documents :
                         c.document_id = d.id}
           qualifying ==
              {[id |-> j[1].id, content |-> j[1].content,
                similarity |-> Similarity(j[1].embedding, query_embedding)] :
                 j \in {j \in joined :
                          /\ above_threshold(
                                Similarity(j[1].embedding, query_embedding),
                                threshold)
                          /\ owner_clause(j[2].user_id, current_user)}}
       IN  search(Served("search_chunks", tok), tok, current_user,
                  query_embedding, threshold, limit, qualifying)
    /\ UNCHANGED <<embeddings, documents, document_chunks, chunker>>
    /\ UNCHANGED authVars
    /\ UNCHANGED cacheVars
    /\ UNCHANGED storeVars

\* A credential store two signups at instant 0 leave behind: both sessions
\* live, or the first user's session deleted by a logout, or both sessions
\* past their expiry
SignedUp(id, email) ==
    LET user == [id |-> id, email |-> email,
                 encrypted_password |-> get_password_hash("pw1"),
                 metadata |-> EmptyObject]
    IN  [user |-> user, s |-> new_session(user, 0, id)]

SearchInit ==
    LET a == SignedUp(1, "a@x.com")
        b == SignedUp(2, "b@x.com")
    IN  /\ users = {a.user, b.user}
        /\ refresh_tokens = {a.s.db_refresh, b.s.db_refresh}
        /\ issued = {[token |-> x.s.token, refreshToken |-> x.s.refreshToken,
                      via |-> NoToken] : x \in {a, b}}
        /\ \/ now = 0 /\ sessions = {a.s.db_session, b.s.db_session}
           \/ now = 0 /\ sessions = {b.s.db_session}
           \/ now = AccessDelta + 1
                /\ sessions = {a.s.db_session, b.s.db_session}
        /\ nextId = 3
        /\ requests = EmptyBag
        /\ response = Silent
        /\ embeddings = {}
        /\ documents = {}
        /\ document_chunks = {}
        /\ result = NoResult
    /\ chunker = NoCall
    /\ doc_ai_cache = [c \in Collections |-> NoHandle]
    /\ tasks = [p \in Procs |-> NoTask]
    /\ instances = {}
    /\ collections = {}
    /\ replies = <<>>

SearchNext ==
    \/ \E tok \in Bearers, content \in Contents, v \in StoredVectors :
          add_document(tok, content, v)
    \/ \E tok \in Bearers, content \in Contents :
          \E chunk_embeddings \in ProviderRuns(content, StoredVectors) :
             add_large_document(tok, content, chunk_embeddings)
    \/ \E tok \in Credentials, q \in QueryVectors, th \in Thresholds,
          n \in Limits : search_documents(tok, q, th, n)
    \/ \E tok \in Credentials, q \in QueryVectors, th \in Thresholds,
          n \in Limits : search_document_chunks(tok, q, th, n)

SpecSearch == SearchInit /\ [][SearchNext]_vars

----------------------------------------------------------------------------
(* The chunked documents: stored, uploaded and deleted *)

\* The embedding the provider returns for a chunk of these documents
DocVectors == {<<1, 0>>}

\* The ids a delete is asked for: those of stored documents, and one more
DocumentIds == {d.id : d \in documents} \cup {fresh_id(documents)}

DocsNext ==
    \/ \E tok \in Bearers, content \in LargeContents :
          \E chunk_embeddings \in ProviderRuns(content, DocVectors) :
             add_large_document(tok, content, chunk_embeddings)
    \/ \E tok \in Bearers, content \in LargeContents :
          \E chunk_embeddings \in ProviderRuns(content, DocVectors) :
             upload_file_for_vectorization(tok, content, chunk_embeddings)
    \/ \E tok \in Bearers, document_id \in DocumentIds :
          delete_large_document(tok, document_id)

SpecDocs == SearchInit /\ [][DocsNext]_vars

----------------------------------------------------------------------------
(* PATCH /users/{user_id}/metadata: update_user_metadata                   *)

\* The bodies of the request: UpdateMetadataRequest.metadata
RequestMetadata ==
    {EmptyObject,
     {[key |-> "theme", value |-> "dark"]},
     {[key |-> "theme", value |-> "light"]},
     {[key |-> "lang", value |-> "en"]}}

\* str(current_user.id): the canonical text of a primary key
str(id) == CASE id = 1 -> "1" [] id = 2 -> "2" [] OTHER -> "0"

\* The user_id segments of the path: the canonical text of each stored
\* key, another spelling of the first key, and a key that is not stored
PathUserIds == {"1", "2", "01", "3"}

\* {**a, **b}: the entries of b, and those of a whose key b does not have
merge(a, b) == {e \in a : \A f \in b : f.key # e.key} \cup b

\* A route that lets the caller update any path
any_metadata(current_user, user_id) == TRUE

\* Line 113, negated: the caller names its own row in the path
own_metadata(current_user, user_id) == str(current_user.id) = user_id

\* The answer of the route with the request it answers: the bearer token,
\* the path and the body sent, the status and detail, and the id and
\* metadata of the user in the body of a 200
MetadataResponse(tok, user_id, metadata, status, detail, user) ==
    [op |-> "update_user_metadata", email |-> "", password |-> "",
     request_token |-> tok, status |-> status, detail |-> detail,
     token |-> NoToken, refreshToken |-> NoToken, user |-> user.id,
     user_id |-> user_id, request_metadata |-> metadata,
     metadata |-> user.metadata]

\* Lines 104-133. get_current_user is resolved before the body runs and
\* its failure (401, 404) is the answer; it shares the request's database
\* session, so current_user is the stored row and line 121 commits the
\* assignment of line 120. The only write of the handler is that commit.
update_user_metadata(tok, user_id, metadata) ==
    /\ tok \in Bearers
    /\ LET out == get_current_user(tok, now)
           current_user == out.user
           updated == [current_user EXCEPT
                          !.metadata = merge(current_user.metadata, metadata)]
       IN  IF out.status # 200
           THEN /\ users' = users
                /\ response' = MetadataResponse(tok, user_id, metadata,
                                   out.status, out.detail, NoUser)
           ELSE IF ~own_metadata(current_user, user_id)
           THEN /\ users' = users
                /\ response' = MetadataResponse(tok, user_id, metadata, 403,
                                   "Cannot update other user's metadata",
                                   NoUser)
           ELSE \E up \in BOOLEAN :
                   IF up
                   THEN /\ users' = (users \ {current_user}) \cup {updated}
                        /\ response' = MetadataResponse(tok, user_id,
                                           metadata, 200, "", updated)
                   ELSE /\ users' = users
                        /\ response' = MetadataResponse(tok, user_id,
                                           metadata, 500, "OperationalError",
                                           NoUser)
    /\ UNCHANGED <<now, sessions, refresh_tokens, nextId, requests, issued>>
    /\ UNCHANGED vectorVars
    /\ UNCHANGED cacheVars
    /\ UNCHANGED storeVars

UsersNext ==
    \E tok \in Bearers, user_id \in PathUserIds, metadata \in RequestMetadata :
       update_user_metadata(tok, user_id, metadata)

SpecUsers == SearchInit /\ [][UsersNext]_vars

----------------------------------------------------------------------------
(* chunk_text, statement by statement: one action per iteration of its     *)
(* while loop, one for the return                                          *)

\* Bounds of the chunking model
MaxLen == 5
MaxChunkSize == 4
MaxIterations == 8

\* The characters of the short texts: a letter, the sentence terminator and
\* the newline (which is white space too)
Alphabet == {"a", ".", NL}

RECURSIVE TextsOfLen(_)
TextsOfLen(n) ==
    IF n = 0 THEN {<<>>}
    ELSE {Append(t, c) : t \in TextsOfLen(n - 1), c \in Alphabet}

\* Every text of at most MaxLen characters
ShortTexts == UNION {TextsOfLen(n) : n \in 0..MaxLen}

\* Texts of 2500 characters: letters only; a sentence of 900 letters and a
\* terminator, repeated; letters followed by 100 blanks; a terminator at
\* index 801 and every 602 characters from there, the earliest break point
\* of each window that cuts it; one terminator, at index 800
LongTexts ==
    {[i \in 1..2500 |-> "a"],
     [i \in 1..2500 |-> IF i % 901 = 0 THEN "." ELSE "a"],
     [i \in 1..2500 |-> IF i > 2400 THEN " " ELSE "a"],
     [i \in 1..2500 |-> IF i >= 802 /\ (i - 802) % 602 = 0 THEN "." ELSE "a"],
     [i \in 1..2500 |-> IF i = 801 THEN "." ELSE "a"]}

\* The state of a call chunk_text(text, chunk_size, overlap) at line 77
Call(text, chunk_size, overlap) ==
    [pc |-> "while", text |-> text, chunk_size |-> chunk_size,
     overlap |-> overlap, start |-> 0, chunks |-> <<>>, windows |-> <<>>]

\* The calls made: short texts with every 0 <= overlap < chunk_size, and
\* the short and the long texts with the default parameters, as every
\* caller passes them
ChunkInit ==
    /\ now = 0
    /\ users = {}
    /\ sessions = {}
    /\ refresh_tokens = {}
    /\ nextId = 1
    /\ requests = EmptyBag
    /\ response = Silent
    /\ issued = {}
    /\ embeddings = {}
    /\ documents = {}
    /\ document_chunks = {}
    /\ result = NoResult
    /\ doc_ai_cache = [c \in Collections |-> NoHandle]
    /\ tasks = [p \in Procs |-> NoTask]
    /\ instances = {}
    /\ collections = {}
    /\ replies = <<>>
    /\ \/ \E text \in ShortTexts, chunk_size \in 1..MaxChunkSize :
            \E overlap \in 0..(chunk_size - 1) :
               chunker = Call(text, chunk_size, overlap)
       \/ \E text \in ShortTexts \cup LongTexts :
            chunker = Call(text, DEFAULT_CHUNK_SIZE, DEFAULT_OVERLAP)

\* Lines 79-95: one iteration of the while loop
chunk_iterate ==
    /\ chunker.pc = "while"
    /\ chunker.start < Len(chunker.text)
    /\ Len(chunker.windows) < MaxIterations
    /\ LET end == window_end(chunker.text, chunker.chunk_size,
                             chunker.overlap, chunker.start)
       IN  chunker' =
              [chunker EXCEPT
                 !.chunks = with_chunk(chunker.chunks, chunker.text,
                                       chunker.start, end),
                 !.windows = Append(chunker.windows,
                                    [start |-> chunker.start, end |-> end]),
                 !.start = next_start(end, chunker.overlap)]
    /\ UNCHANGED <<response, embeddings, documents, document_chunks, result>>
    /\ UNCHANGED authVars
    /\ UNCHANGED cacheVars
    /\ UNCHANGED storeVars

\* Lines 79 and 97: the loop condition fails and chunks is returned
chunk_return ==
    /\ chunker.pc = "while"
    /\ ~(chunker.start < Len(chunker.text))
    /\ chunker' = [chunker EXCEPT !.pc = "return"]
    /\ UNCHANGED <<response, embeddings, documents, document_chunks, result>>
    /\ UNCHANGED authVars
    /\ UNCHANGED cacheVars
    /\ UNCHANGED storeVars

ChunkNext ==
    \/ chunk_iterate
    \/ chunk_return

SpecChunk == ChunkInit /\ [][ChunkNext]_vars

----------------------------------------------------------------------------
(* The store handles of main.py: get_doc_ai and doc_ai_cache. Every       *)
(* handler that calls get_doc_ai is a coroutine (async def) served by the  *)
(* one event loop of the process.                                          *)

\* Bound on the store handles constructed
MaxInstances == 3

\* The handlers modelled, and those that begin with a call of get_doc_ai
CacheOps == {"search_documents", "delete_collection", "recreate_collection"}
Lookups == {"search_documents", "delete_collection"}

\* A scheduler that switches between handlers at any statement, as
\* threads would
switch_anywhere(task) == TRUE

\* The event loop runs a coroutine until it returns or awaits, and none of
\* these handlers awaits between its first and its last statement: another
\* handler runs only while this one is idle or has not begun
at_switch_point(task) == task.pc \in {"idle", "start"}

\* The handler in slot p may execute its next statement
runnable(p) == \A q \in Procs \ {p} : at_switch_point(tasks[q])

\* Handlers in flight that may still construct a store handle
Constructing == {p \in Procs : tasks[p].op \in CacheOps}

\* A request for one of the handlers arrives
request(p, op, collection_name) ==
    /\ tasks[p] = NoTask
    /\ Cardinality(instances) + Cardinality(Constructing) < MaxInstances
    /\ tasks' = [tasks EXCEPT ![p] =
                    [op |-> op, collection_name |-> collection_name,
                     pc |-> "start", doc_ai |-> NoHandle]]
    /\ UNCHANGED <<doc_ai_cache, instances, response>>
    /\ UNCHANGED authVars
    /\ UNCHANGED vectorVars
    /\ UNCHANGED storeVars

\* get_doc_ai, lines 116-117: the cached handle is returned if there is one
get_doc_ai_cached(p) ==
    /\ tasks[p].op \in Lookups
    /\ tasks[p].pc = "start"
    /\ runnable(p)
    /\ LET cached == doc_ai_cache[tasks[p].collection_name]
       IN  tasks' = [tasks EXCEPT ![p] =
                       IF cached # NoHandle
                       THEN [@ EXCEPT !.pc = "body", !.doc_ai = cached]
                       ELSE [@ EXCEPT !.pc = "construct"]]
    /\ UNCHANGED <<doc_ai_cache, instances, response>>
    /\ UNCHANGED authVars
    /\ UNCHANGED vectorVars
    /\ UNCHANGED storeVars

\* get_doc_ai, lines 119-135: a new DocumentAI is constructed, stored in
\* the cache, and what the cache then holds is returned
get_doc_ai_construct(p) ==
    /\ tasks[p].pc = "construct"
    /\ runnable(p)
    /\ LET name == tasks[p].collection_name
           handle == Cardinality(instances) + 1
       IN  /\ instances' = instances \cup
                 {[id |-> handle, collection_name |-> name,
                   by |-> "get_doc_ai"]}
           /\ doc_ai_cache' = [doc_ai_cache EXCEPT ![name] = handle]
           /\ tasks' = [tasks EXCEPT ![p] =
                           [@ EXCEPT !.pc = "body",
                                     !.doc_ai = doc_ai_cache'[name]]]
    /\ UNCHANGED response
    /\ UNCHANGED authVars
    /\ UNCHANGED vectorVars
    /\ UNCHANGED storeVars

\* POST /documents/search, lines 604-632: the search on the handle
search_documents_served(p) ==
    /\ tasks[p].op = "search_documents"
    /\ tasks[p].pc = "body"
    /\ runnable(p)
    /\ tasks' = [tasks EXCEPT ![p] = NoTask]
    /\ UNCHANGED <<doc_ai_cache, instances, response>>
    /\ UNCHANGED authVars
    /\ UNCHANGED vectorVars
    /\ UNCHANGED storeVars

\* DELETE /collections/{name}, lines 281-311: when the database statements
\* and the commit succeed the name is removed from the cache (lines
\* 303-304); when one of them raises, the handler answers 500 and the cache
\* keeps the handle
delete_collection(p) ==
    /\ tasks[p].op = "delete_collection"
    /\ tasks[p].pc = "body"
    /\ runnable(p)
    /\ \E db_ok \in BOOLEAN :
          doc_ai_cache' =
             IF db_ok
             THEN [doc_ai_cache EXCEPT ![tasks[p].collection_name] = NoHandle]
             ELSE doc_ai_cache
    /\ tasks' = [tasks EXCEPT ![p] = NoTask]
    /\ UNCHANGED <<instances, response>>
    /\ UNCHANGED authVars
    /\ UNCHANGED vectorVars
    /\ UNCHANGED storeVars

\* POST /collections/recreate, lines 317-333: the name is removed from the
\* cache and the directory of the store deleted
recreate_collection_clear(p) ==
    /\ tasks[p].op = "recreate_collection"
    /\ tasks[p].pc = "start"
    /\ runnable(p)
    /\ doc_ai_cache' =
          [doc_ai_cache EXCEPT ![tasks[p].collection_name] = NoHandle]
    /\ tasks' = [tasks EXCEPT ![p] = [@ EXCEPT !.pc = "body"]]
    /\ UNCHANGED <<instances, response>>
    /\ UNCHANGED authVars
    /\ UNCHANGED vectorVars
    /\ UNCHANGED storeVars

\* POST /collections/recreate, lines 335-370: when the deletes and their
\* commit succeed a fresh DocumentAI is constructed and stored in the cache
\* (lines 346-353); when they raise, the handler answers 500 and the name
\* stays out of the cache
recreate_collection(p) ==
    /\ tasks[p].op = "recreate_collection"
    /\ tasks[p].pc = "body"
    /\ runnable(p)
    /\ \E db_ok \in BOOLEAN :
          LET name == tasks[p].collection_name
              handle == Cardinality(instances) + 1
          IN  IF db_ok
              THEN /\ instances' = instances \cup
                         {[id |-> handle, collection_name |-> name,
                           by |-> "recreate_collection"]}
                   /\ doc_ai_cache' = [doc_ai_cache EXCEPT ![name] = handle]
              ELSE UNCHANGED <<instances, doc_ai_cache>>
    /\ tasks' = [tasks EXCEPT ![p] = NoTask]
    /\ UNCHANGED response
    /\ UNCHANGED authVars
    /\ UNCHANGED vectorVars
    /\ UNCHANGED storeVars

CacheNext ==
    \/ \E p \in Procs, op \in CacheOps, name \in Collections :
          request(p, op, name)
    \/ \E p \in Procs : get_doc_ai_cached(p)
    \/ \E p \in Procs : get_doc_ai_construct(p)
    \/ \E p \in Procs : search_documents_served(p)
    \/ \E p \in Procs : delete_collection(p)
    \/ \E p \in Procs : recreate_collection_clear(p)
    \/ \E p \in Procs : recreate_collection(p)

SpecCache == AuthInit /\ [][CacheNext]_vars

----------------------------------------------------------------------------
(* The collections and documents of main.py: create_collection,           *)
(* upload_document, delete_document. Each handler is a coroutine without   *)
(* an await, so the event loop runs it from its first to its last          *)
(* statement: one action per handler.                                      *)

\* Bound on the answers recorded
MaxReplies == 3

\* The ids a DELETE /documents/{document_id} names
MainDocumentIds == {1, 2}

\* db.database.get_db, imported by main.py at line 35: the object every
\* handler is given as db is SessionLocal(), a sqlalchemy.orm.Session
get_db == "Session"

\* db.cursor(): a DB-API connection hands out a cursor; a Session has no
\* attribute of that name and the call raises
cursor(db) == IF db = "connection" THEN "cursor" ELSE "AttributeError"

\* The answer of a handler as the client sees it
Reply(op, target, status, detail) ==
    [op |-> op, target |-> target, status |-> status, detail |-> detail]

\* POST /collections. Line 213 is the first statement of the try block:
\* db.cursor() raises AttributeError, which is no HTTPException; the
\* handler of line 253 turns it into a 500. The existence check, the INSERT
\* with its duplicate-key handling and get_doc_ai (lines 215-251) are not
\* reached.
create_collection(name) ==
    /\ Len(replies) < MaxReplies
    /\ cursor(get_db) = "AttributeError"
    /\ replies' = Append(replies,
          Reply("create_collection", name, 500,
                "Database error: 'Session' object has no attribute 'cursor'"))
    /\ collections' = collections
    /\ UNCHANGED response
    /\ UNCHANGED authVars
    /\ UNCHANGED vectorVars
    /\ UNCHANGED cacheVars

\* POST /documents/upload. Line 382, the first statement of the handler's
\* first try block, raises; line 390 answers 500 with the message of the
\* exception. No collection is created, no file read, no row written.
upload_document(collection_name) ==
    /\ Len(replies) < MaxReplies
    /\ cursor(get_db) = "AttributeError"
    /\ replies' = Append(replies,
          Reply("upload_document", collection_name, 500,
                "'Session' object has no attribute 'cursor'"))
    /\ collections' = collections
    /\ UNCHANGED response
    /\ UNCHANGED authVars
    /\ UNCHANGED vectorVars
    /\ UNCHANGED cacheVars

\* DELETE /documents/{document_id}. Line 514 raises; the handler of the
\* try block answers 500. No row is deleted and no count changed.
delete_document(document_id) ==
    /\ Len(replies) < MaxReplies
    /\ cursor(get_db) = "AttributeError"
    /\ replies' = Append(replies,
          Reply("delete_document", document_id, 500,
                "Error deleting document: 'Session' object has no attribute 'cursor'"))
    /\ collections' = collections
    /\ UNCHANGED response
    /\ UNCHANGED authVars
    /\ UNCHANGED vectorVars
    /\ UNCHANGED cacheVars

CollectionsNext ==
    \/ \E name \in Collections : create_collection(name)
    \/ \E name \in Collections : upload_document(name)
    \/ \E document_id \in MainDocumentIds : delete_document(document_id)

SpecCollections == AuthInit /\ [][CollectionsNext]_vars

----------------------------------------------------------------------------
(* Properties of the authentication core *)

\* What the client sees of a response
Body(resp) ==
    [status |-> resp.status, detail |-> resp.detail, token |-> resp.token,
     refreshToken |-> resp.refreshToken, user |-> resp.user]

\* The storage layer was unavailable: the failure is not the handler's
Outage(resp) == resp.detail = "OperationalError"

IssuedRefreshTokens == {g.refreshToken : g \in issued}

\* Refresh tokens a successful Refresh has consumed
Consumed == {g.via : g \in issued} \ {NoToken}

\* C1: a Refresh of an issued refresh token whose row is stored and
\* unexpired succeeds (a Refresh that failed, other than on a storage
\* outage, leaves no unexpired row of its token behind), and once a Refresh
\* of r has succeeded, Refresh(r) fails Unauthenticated.
C1_RefreshOnceThenNever ==
    /\ \A r \in Consumed : refresh_check(r, now).status = 401
    /\ (/\ response.op = "refresh"
        /\ response.request_token \in IssuedRefreshTokens
        /\ response.status # 200
        /\ ~Outage(response))
       => live_refresh_tokens(response.request_token, now) = {}

\* C2: one refresh token never yields two new token pairs.
C2_OnePairPerRefreshToken ==
    \A g1, g2 \in issued :
        (g1.via # NoToken /\ g1.via = g2.via) => g1 = g2

\* C3: once a user has signed up, a signin with the user's password
\* succeeds and returns an access token that validate accepts, and a signin
\* with another password fails InvalidCredentials.
C3_SigninAfterSignup ==
    (/\ response.op = "signin"
     /\ \E g \in issued : g.token.email = response.email
     /\ ~Outage(response))
    => LET user == CHOOSE u \in users_by_email(response.email) : TRUE
       IN  IF user.encrypted_password = get_password_hash(response.password)
           THEN /\ response.status = 200
                /\ get_current_user(response.token, now).status = 200
           ELSE /\ response.status = 401
                /\ response.detail = "Invalid credentials"

\* C4: no User row is visible without the Session and RefreshToken rows
\* of the signup that created it having been stored.
C4_SignupAllOrNothing ==
    \A u \in users : \E g \in issued : g.token.sub = u.id

\* C5: a signup that fails because the email is taken fails AlreadyExists
\* (400 "User already exists"), also when it lost a race.
C5_TakenEmailAlreadyExists ==
    (/\ response.op = "signup"
     /\ response.status # 200
     /\ ~Outage(response))
    => /\ response.status = 400
       /\ response.detail = "User already exists"

\* C6: at most one User row exists per email.
C6_UniqueEmail ==
    \A u1, u2 \in users : u1.email = u2.email => u1 = u2

\* C6 witness: two signups for one email raced, one row was stored and the
\* loser was stopped by the constraint.
C6_Witness ==
    /\ response.op = "signup"
    /\ response.detail = "IntegrityError"
    /\ users_by_email(response.email) # {}

\* C9: an access token whose Session row is stored but past its expiry
\* (issue instant + 7 days) fails validation with 401, at every instant
\* after the expiry, although it is correctly signed.
C9_ExpiredTokenRejected ==
    /\ \A s \in sessions :
          s.expires_at < now => get_current_user(s.token, now).status = 401
    /\ (/\ response.op = "validate"
        /\ \E s \in sessions : /\ s.token = response.request_token
                               /\ s.expires_at < now)
       => response.status = 401

\* C9 witness: validate has just rejected a correctly signed token whose
\* Session row is still stored, after its expiry.
C9_Witness ==
    /\ response.op = "validate"
    /\ response.status = 401
    /\ response.request_token.sig = SECRET_KEY
    /\ \E s \in sessions : /\ s.token = response.request_token
                           /\ s.expires_at < now

\* C10: a signin for an unknown email and a signin with a wrong password
\* get the same response, 401 "Invalid credentials" without a body, and
\* the step that sends it changes no stored row.
C10_UniformDenial ==
    [][(/\ response'.op = "signin"
        /\ \/ users_by_email(response'.email) = {}
           \/ \E u \in users_by_email(response'.email) :
                 u.encrypted_password # get_password_hash(response'.password))
       => /\ Body(response') = Body(Failure(Idle, 401, "Invalid credentials"))
          /\ UNCHANGED <<users, sessions, refresh_tokens>>]_vars

\* C10 witness: a signin with a wrong password for a known email was denied
\* (the denial of an unknown email is the state before any signup).
C10_Witness ==
    /\ response.op = "signin"
    /\ response.status = 401
    /\ \E u \in users_by_email(response.email) :
          u.encrypted_password # get_password_hash(response.password)

\* The operations that end in create_session
SessionOps == {"signup", "signin", "refresh"}

IssuedAccessTokens == {g.token : g \in issued}

\* C11: in every step the Session rows and the RefreshToken rows that become
\* visible come in pairs: none, or one of each for the same user; a
\* CreateSession answered with success made one such pair visible in that
\* step, a failed one made none.
C11_RowsInPairs ==
    [][LET new_sessions == sessions' \ sessions
           new_refresh == refresh_tokens' \ refresh_tokens
       IN  /\ Cardinality(new_sessions) = Cardinality(new_refresh)
           /\ Cardinality(new_sessions) <= 1
           /\ \A s \in new_sessions, r \in new_refresh :
                 /\ s.user_id = r.user_id
                 /\ s.token.sub = s.user_id /\ s.token.type = "access"
                 /\ r.token.sub = r.user_id /\ r.token.type = "refresh"
           /\ (response'.op \in SessionOps /\ response'.status = 200)
                 => /\ \E x \in new_sessions : x.token = response'.token
                    /\ \E x \in new_refresh : x.token = response'.refreshToken
           /\ response'.status # 200 => new_sessions = {} /\ new_refresh = {}
      ]_vars

\* C11 witness: a refresh has just succeeded and both rows of its
\* CreateSession are stored.
C11_Witness ==
    /\ response.op = "refresh"
    /\ response.status = 200
    /\ \E x \in sessions : x.token = response.token
    /\ \E x \in refresh_tokens : x.token = response.refreshToken

\* C12: a step never removes a RefreshToken row without making the new
\* Session and RefreshToken rows visible with it; a Refresh answered with
\* success leaves no row of the consumed token; a Refresh answered with a
\* failure, whatever the failure, changes no stored row.
C12_RefreshAllOrNothing ==
    [][/\ refresh_tokens \ refresh_tokens' # {}
          => /\ sessions' \ sessions # {}
             /\ refresh_tokens' \ refresh_tokens # {}
       /\ (response'.op = "refresh" /\ response'.status = 200)
          => \A r \in refresh_tokens' : r.token # response'.request_token
       /\ (response'.op = "refresh" /\ response'.status # 200)
          => UNCHANGED <<users, sessions, refresh_tokens>>
      ]_vars

\* C12 witness: a Refresh failed while inserting the new rows and the row
\* of the token it presented is still stored.
C12_Witness ==
    /\ response.op = "refresh"
    /\ response.detail = "IntegrityError"
    /\ live_refresh_tokens(response.request_token, now) # {}

\* C13: no two Session rows hold one token string, and no two RefreshToken
\* rows do.
C13_UniqueTokens ==
    /\ \A s1, s2 \in sessions : s1.token = s2.token => s1 = s2
    /\ \A r1, r2 \in refresh_tokens : r1.token = r2.token => r1 = r2

\* C13 witness: a CreateSession that built a token string already stored
\* was stopped by the constraint.
C13_Witness ==
    /\ response.op \in {"signin", "refresh"}
    /\ response.detail = "IntegrityError"
    /\ \E s \in sessions :
          s.token = create_access_token(
                       [sub |-> s.user_id, email |-> s.token.email], now)

\* The outcome C14 states for the validation of a token: validation returns
\* the user exactly when the token decodes, a Session row with that token
\* and an expiry in the future is stored and the claimed user exists; it
\* fails with 401 when the token does not decode or no such row is stored,
\* whether the token is garbage, expired or logged out; it fails with 404
\* only when the row is stored and the user is not. The response of
\* /validate is that outcome.
C14_Outcome(tok) ==
    LET decodes == tok.sig = SECRET_KEY /\ tok.exp >= ToSeconds(now)
        row == \E s \in sessions : s.token = tok /\ s.expires_at > now
        user == \E u \in users : u.id = tok.sub
    IN  IF ~decodes \/ ~row THEN 401
        ELSE IF ~user THEN 404
        ELSE 200

\* C14: in every state, validation of every presentable token has the
\* outcome above, and so has the last response of /validate.
C14_ValidateOutcome ==
    /\ \A tok \in Presentable :
          LET out == get_current_user(tok, now)
          IN  /\ out.status = C14_Outcome(tok)
              /\ out.status = 200 => /\ out.user \in users
                                     /\ out.user.id = tok.sub
              /\ out.status # 200 => out.user = NoUser
    /\ response.op = "validate"
          => /\ response.status = C14_Outcome(response.request_token)
             /\ response.status = 200
                   => response.user = response.request_token.sub
             /\ response.status # 200 => response.user = 0

\* C14 witness: /validate has just rejected, with 401, a correctly signed,
\* unexpired access token whose Session row a logout deleted.
C14_Witness ==
    /\ response.op = "validate"
    /\ response.status = 401
    /\ response.request_token \in IssuedAccessTokens
    /\ decode_ok(response.request_token, now)
    /\ sessions_by_token(response.request_token) = {}

\* C15: a Refresh that presents a token whose kind is not refresh is
\* answered 401 and its step changes no stored row, also when the token is
\* a correctly signed, unexpired access token with a live Session row.
C15_RefreshNeedsRefreshKind ==
    [][(response'.op = "refresh" /\ response'.request_token.type # "refresh")
       => /\ response'.status = 401
          /\ UNCHANGED <<users, sessions, refresh_tokens>>
      ]_vars

\* C15 witness: a Refresh that presented a live access token was refused.
C15_Witness ==
    /\ response.op = "refresh"
    /\ response.status = 401
    /\ response.request_token.type = "access"
    /\ live_sessions(response.request_token, now) # {}

\* C16: every Logout is answered with success (a storage outage aside);
\* its step removes at most Session rows holding the presented token and
\* changes no other row, so a Logout of a token with no Session row (never
\* stored, or removed by an earlier or a concurrent Logout) changes nothing.
C16_LogoutIdempotent ==
    [][(response'.op = "signout" /\ ~Outage(response'))
       => /\ response'.status = 200
          /\ sessions' \subseteq sessions
          /\ \A s \in sessions \ sessions' : s.token = response'.request_token
          /\ sessions_by_token(response'.request_token) = {}
                => sessions' = sessions
          /\ UNCHANGED <<users, refresh_tokens>>
      ]_vars

\* C16 witness: a Logout of an issued token has been answered, no Session
\* row holds the token, and a concurrent Logout of the same token that
\* found the row before it was removed is still to commit.
C16_Witness ==
    /\ response.op = "signout"
    /\ response.status = 200
    /\ response.request_token \in IssuedAccessTokens
    /\ sessions_by_token(response.request_token) = {}
    /\ \E r \in InFlight : /\ r.pc = "logout_commit"
                           /\ r.token = response.request_token

C28_ValidateReadsOnly ==
    [][/\ response'.op = "validate"
          => /\ UNCHANGED <<users, sessions, refresh_tokens>>
             /\ response'.detail = "Could not validate credentials"
                   <=> ~(/\ response'.request_token.sig = SECRET_KEY
                         /\ response'.request_token.exp >= ToSeconds(now))
       /\ (now' = now /\ <<users, sessions, refresh_tokens>>'
                            # <<users, sessions, refresh_tokens>>)
          => \A tok \in Presentable :
                decode_ok(tok, now') <=> decode_ok(tok, now)
      ]_vars

\* C28 witness: a correctly signed token was validated after its expiry
\* while the rows of its session are still stored; the answer is the decode
\* failure.
C28_Witness ==
    /\ response.op = "validate"
    /\ response.detail = "Could not validate credentials"
    /\ response.request_token.sig = SECRET_KEY
    /\ sessions_by_token(response.request_token) # {}
    /\ refresh_tokens # {}

\* C29: a signin with valid credentials (one that is not answered
\* "Invalid credentials") succeeds in every state (a storage outage aside), also when the user
\* holds live sessions and when an earlier CreateSession of the user
\* happened in the same clock second; each success adds a Session row
\* whose token string differs from every token string stored before.
C29_SigninAlwaysSucceeds ==
    [][(/\ response'.op = "signin"
        /\ response'.detail # "Invalid credentials"
        /\ ~Outage(response'))
       => /\ response'.status = 200
          /\ \E row \in sessions' \ sessions :
                /\ row.token = response'.token
                /\ token_unique(sessions, row)
      ]_vars

\* C30: a successful Refresh removes exactly one row, the RefreshToken row
\* of the token it consumed, and adds exactly one Session row and one
\* RefreshToken row; every other row is unchanged, so an access token that
\* was issued together with the consumed refresh token validates after the
\* refresh as it did before.
C30_RefreshRemovesOneAddsTwo ==
    [][(response'.op = "refresh" /\ response'.status = 200)
       => /\ users' = users
          /\ sessions \subseteq sessions'
          /\ Cardinality(sessions' \ sessions) = 1
          /\ refresh_tokens \ refresh_tokens' =
                {row \in refresh_tokens : row.token = response'.request_token}
          /\ Cardinality(refresh_tokens \ refresh_tokens') = 1
          /\ Cardinality(refresh_tokens' \ refresh_tokens) = 1
          /\ \A g \in issued :
                g.refreshToken = response'.request_token
                => get_current_user(g.token, now)'
                     = get_current_user(g.token, now)
      ]_vars

\* Access tokens that were handed out and have no Session row: no step but
\* a Logout removes a Session row
LoggedOut == {g.token : g \in {h \in issued : sessions_by_token(h.token) = {}}}

\* C31: a Logout of t removes at most the one Session row whose token is t
\* and changes no User row and no RefreshToken row; and a Refresh with the
\* refresh token that was issued together with a logged-out t, whose
\* RefreshToken row is stored and unexpired, succeeds (a storage outage
\* aside) and returns an access token that validates.
C31_LogoutKeepsRefreshToken ==
    [][/\ response'.op = "signout"
          => /\ UNCHANGED <<users, refresh_tokens>>
             /\ sessions' \subseteq sessions
             /\ Cardinality(sessions \ sessions') <= 1
             /\ \A s \in sessions \ sessions' :
                   s.token = response'.request_token
       /\ (/\ response'.op = "refresh"
           /\ ~Outage(response')
           /\ live_refresh_tokens(response'.request_token, now) # {}
           /\ \E g \in issued : /\ g.refreshToken = response'.request_token
                                 /\ g.token \in LoggedOut)
          => /\ response'.status = 200
             /\ \E s \in sessions' :
                   /\ s.token = response'.token
                   /\ get_current_user(s.token, now)'.status = 200
      ]_vars

\* C32: Session rows hold access token strings only, so a refresh token
\* that CreateSession issued fails validation with 401 in every state, and
\* every Validate of one is answered 401.
C32_RefreshTokenIsNoBearer ==
    /\ \A s \in sessions : s.token.type = "access"
    /\ \A r \in IssuedRefreshTokens : get_current_user(r, now).status = 401
    /\ (response.op = "validate" /\ response.request_token \in IssuedRefreshTokens)
       => response.status = 401

\* C32 witness: a Validate of an issued refresh token that decodes and whose
\* RefreshToken row is stored and unexpired was answered 401.
C32_Witness ==
    /\ response.op = "validate"
    /\ response.request_token \in IssuedRefreshTokens
    /\ decode_ok(response.request_token, now)
    /\ live_refresh_tokens(response.request_token, now) # {}
    /\ response.status = 401
    /\ response.detail = "Session expired or invalid"

\* C36: every Session row and every RefreshToken row references a stored
\* User row, in every state that signups, signins, refreshes and logouts
\* reach.
C36_RowsReferenceUsers ==
    /\ \A s \in sessions : users_by_id(s.user_id) # {}
    /\ \A rt \in refresh_tokens : users_by_id(rt.user_id) # {}

\* C36 witness: a user holds a Session row and two RefreshToken rows after
\* a Refresh has consumed a refresh token and a Logout has removed a
\* Session row.
C36_Witness ==
    /\ users # {}
    /\ Cardinality(refresh_tokens) >= 2
    /\ sessions # {}
    /\ Consumed # {}
    /\ LoggedOut # {}

----------------------------------------------------------------------------
(* Properties of the similarity search *)

SearchOps == {"search", "search_chunks"}

\* The stored rows a search of kind op ranges over, each with its owner
Searchable(op) ==
    IF op = "search"
    THEN {[id |-> e.id, owner |-> e.user_id, embedding |-> e.embedding] :
             e \in embeddings}
    ELSE {[id |-> j[1].id, owner |-> j[2].user_id,
           embedding |-> j[1].embedding] :
             j \in {j \in document_chunks \X documents :
                      j[1].document_id = j[2].id}}

ReturnedIds == {result.rows[i].id : i \in 1..Len(result.rows)}

\* C7: a search whose bearer token fails validation returns no stored row.
C7_SearchNeedsValidToken ==
    (/\ response.op \in SearchOps
     /\ get_current_user(response.request_token, now).status # 200)
    => result.rows = <<>>

\* C8: a search served to an authenticated user returns only rows owned by
\* that user, and as many of them as the limit allows: the rows of other
\* users are filtered out before the ranking and the limit cut, so they
\* neither appear in the result nor take a place in it.
C8_OnlyOwnRows ==
    (/\ response.op \in SearchOps
     /\ response.status = 200
     /\ result.user # 0)
    => LET own == {r \in Searchable(response.op) :
                      /\ r.owner = result.user
                      /\ Similarity(r.embedding, result.query) > result.threshold}
       IN  /\ ReturnedIds \subseteq {r.id : r \in own}
           /\ Len(result.rows) = Min(result.limit, Cardinality(own))

\* C8 witness: a search served to a user filled its limit with the user's
\* own rows while a row of another user was strictly more similar to the
\* query than a returned one.
C8_Witness ==
    /\ response.op \in SearchOps
    /\ response.status = 200
    /\ result.user # 0
    /\ Len(result.rows) = result.limit
    /\ \E r \in Searchable(response.op) :
          /\ r.owner # result.user
          /\ \E i \in 1..Len(result.rows) :
                100 - Similarity(r.embedding, result.query)
                    < result.rows[i].distance

\* The rows a search may return: all of them when no user was resolved,
\* the user's own otherwise; each with its similarity to the query
Candidates ==
    {[id |-> r.id, similarity |-> Similarity(r.embedding, result.query)] :
        r \in {r \in Searchable(response.op) :
                  result.user = 0 \/ r.owner = result.user}}

\* C23: the rows of a served search are in order of non-increasing
\* similarity, each is a candidate with similarity strictly greater than
\* the threshold and reports 1 - similarity as its distance, and they are
\* at most limit; candidates with similarities 0.92 and 0.81, threshold 0.8
\* and limit 5 give both rows, the one of 0.92 first.
C23_RankedAboveThreshold ==
    (response.op \in SearchOps /\ response.status = 200)
    => LET n == Len(result.rows)
       IN  /\ n <= result.limit
           /\ \A i, j \in 1..n :
                 i < j => /\ result.rows[i].distance <= result.rows[j].distance
                          /\ result.rows[i].id # result.rows[j].id
           /\ \A i \in 1..n :
                 \E c \in Candidates :
                    /\ c.id = result.rows[i].id
                    /\ c.similarity > result.threshold
                    /\ result.rows[i].distance = 100 - c.similarity
           /\ (/\ {c.similarity : c \in Candidates} = {92, 81}
               /\ Cardinality(Candidates) = 2
               /\ result.threshold = 80
               /\ result.limit = 5)
              => /\ n = 2
                 /\ result.rows[1].distance = 8
                 /\ result.rows[2].distance = 19

\* C23 witness: a search with threshold 0.8 and limit 5 over two candidates
\* of similarities 0.92 and 0.81 has returned both.
C23_Witness ==
    /\ response.op \in SearchOps
    /\ response.status = 200
    /\ result.threshold = 80
    /\ result.limit = 5
    /\ {c.similarity : c \in Candidates} = {92, 81}
    /\ Len(result.rows) = 2

\* C23 second witness: a candidate whose similarity equals the threshold
\* was left out of a served search.
C23_AtThresholdExcluded ==
    /\ response.op \in SearchOps
    /\ response.status = 200
    /\ \E c \in Candidates :
          /\ c.similarity = result.threshold
          /\ c.id \notin ReturnedIds

\* The candidates of a served search that pass its WHERE clause
Qualifying == {c \in Candidates : c.similarity > result.threshold}

\* C35: in a served search no qualifying candidate that is left out of the
\* result is strictly more similar to the query than a returned row, and
\* when at most limit candidates qualify every one of them is returned.
C35_TopOfRanking ==
    (response.op \in SearchOps /\ response.status = 200)
    => /\ \A c \in Qualifying :
             c.id \notin ReturnedIds
             => \A i \in 1..Len(result.rows) :
                   100 - result.rows[i].distance >= c.similarity
       /\ Cardinality(Qualifying) <= result.limit
             => {c.id : c \in Qualifying} = ReturnedIds

\* C35 witness: a search has filled its limit and left out a qualifying
\* candidate that is less similar to the query than the returned rows.
C35_Witness ==
    /\ response.op \in SearchOps
    /\ response.status = 200
    /\ Len(result.rows) = result.limit
    /\ \E c \in Qualifying :
          /\ c.id \notin ReturnedIds
          /\ \A i \in 1..Len(result.rows) :
                100 - result.rows[i].distance > c.similarity

----------------------------------------------------------------------------
(* Properties of the chunked documents *)

\* The requests that store a chunked document
LargeOps == {"add_large_document", "upload"}

\* The DocumentChunk rows of a document, among rows
chunks_of(rows, d) == {c \in rows : c.document_id = d.id}

\* C24: a request that stores a chunked document and is answered with a
\* failure (the provider failed for one of the chunks, or the commit
\* failed) leaves no Document and no DocumentChunk row behind, and with
\* valid credentials the failure reaches the caller as a 500; one answered
\* with success makes exactly one Document row and all the rows of its
\* chunks visible in the same step; and no step makes a Document visible
\* without all its chunk rows, or chunk rows without their Document.
C24_ChunkedAddAllOrNothing ==
    [][/\ (response'.op \in LargeOps /\ response'.status # 200)
          => /\ UNCHANGED <<documents, document_chunks, embeddings>>
             /\ get_current_user(response'.request_token, now).status = 200
                   => response'.status = 500
       /\ (response'.op \in LargeOps /\ response'.status = 200)
          => /\ Cardinality(documents' \ documents) = 1
             /\ documents \subseteq documents'
             /\ document_chunks \subseteq document_chunks'
       /\ \A d \in documents' \ documents :
             /\ chunks_of(document_chunks', d)
                   = document_chunks' \ document_chunks
             /\ Cardinality(chunks_of(document_chunks', d))
                   = Len(Chunked[d.content])
       /\ document_chunks' \ document_chunks # {}
          => documents' \ documents # {}
      ]_vars

\* C24 witness: the provider has failed for a chunk of a document while
\* another document of two chunks is stored, whole.
C24_Witness ==
    /\ response.op \in LargeOps
    /\ response.status = 500
    /\ response.detail = "Failed to create embedding"
    /\ Cardinality(documents) = 1
    /\ \E d \in documents :
          /\ Len(Chunked[d.content]) = 2
          /\ chunks_of(document_chunks, d) = document_chunks
          /\ Cardinality(document_chunks) = 2

\* C25: the chunk rows of every stored document carry the indices 0 to
\* n - 1, each once, n being the number of chunks chunk_text cuts the
\* content of the document into, and the row of index i holds the i-th of
\* these chunks (counted from 0).
C25_ContiguousChunkIndex ==
    \A d \in documents :
       LET rows == chunks_of(document_chunks, d)
           n == Cardinality(rows)
       IN  /\ {c.chunk_index : c \in rows} = 0..(n - 1)
           /\ n = Len(Chunked[d.content])
           /\ \A c \in rows :
                 c.content = Chunked[d.content][c.chunk_index + 1]

\* C25 witness: two documents of two chunks each are stored, the second
\* by an upload.
C25_Witness ==
    /\ response.op = "upload"
    /\ response.status = 200
    /\ Cardinality(documents) = 2
    /\ \A d \in documents : Cardinality(chunks_of(document_chunks, d)) = 2

\* C26: the step of a delete_large_document answered with success removes
\* one Document row, the caller's, and every chunk row holding its id, and
\* no other row; and after every step each chunk row holds the id of a
\* stored Document.
C26_DeleteCascades ==
    [][/\ (response'.op = "delete_large_document" /\ response'.status = 200)
          => \E d \in documents :
                /\ d.user_id = response'.user
                /\ documents' = documents \ {d}
                /\ chunks_of(document_chunks', d) = {}
                /\ document_chunks' =
                      document_chunks \ chunks_of(document_chunks, d)
       /\ \A c \in document_chunks' :
             \E d \in documents' : d.id = c.document_id
      ]_vars

\* C26 witness: a document of two chunks, the first stored, was deleted
\* and the two chunks of another document are still stored.
C26_Witness ==
    /\ response.op = "delete_large_document"
    /\ response.status = 200
    /\ Cardinality(documents) = 1
    /\ {c.id : c \in document_chunks} = {3, 4}

----------------------------------------------------------------------------
(* Properties of the store handles *)

\* C27: get_doc_ai constructs a handle for a name only when the cache holds
\* none for it, and the handle is then the one cached, so that of the
\* handlers whose first calls for a name are in flight together one
\* constructs the handle and the others are given it; a cached handle is
\* replaced or removed only by a step of delete_collection or
\* recreate_collection for its name; and the handle a handler has been
\* given is the one cached for its name.
C27_OneHandlePerCollection ==
    [][/\ \A i \in instances' \ instances :
             /\ doc_ai_cache'[i.collection_name] = i.id
             /\ i.by = "get_doc_ai"
                   => doc_ai_cache[i.collection_name] = NoHandle
       /\ \A c \in Collections :
             (doc_ai_cache[c] # NoHandle /\ doc_ai_cache'[c] # doc_ai_cache[c])
                => \E p \in Procs :
                      /\ tasks[p].op
                            \in {"delete_collection", "recreate_collection"}
                      /\ tasks[p].collection_name = c
                      /\ tasks'[p] # tasks[p]
       /\ \A p \in Procs :
             tasks'[p].doc_ai # NoHandle
                => tasks'[p].doc_ai = doc_ai_cache'[tasks'[p].collection_name]
      ]_vars

\* C27 witness: a handler is given the cached handle of a collection while
\* one handle has been constructed for the collection and a second request
\* for it, which arrived before the handle was constructed, has not begun.
C27_Witness ==
    \E p, q \in Procs :
       /\ p # q
       /\ tasks[p].pc = "body"
       /\ tasks[p].doc_ai = doc_ai_cache[tasks[p].collection_name]
       /\ tasks[p].doc_ai # NoHandle
       /\ tasks[q].op \in Lookups
       /\ tasks[q].pc = "start"
       /\ tasks[q].collection_name = tasks[p].collection_name
       /\ Cardinality({i \in instances :
                          i.collection_name = tasks[p].collection_name}) = 1

----------------------------------------------------------------------------
(* Properties of the user metadata *)

\* The rows of users that a step wrote: those that are not as they were
Written == users' \ users

\* C38: a step of update_user_metadata writes a User row only when the
\* user validated for its bearer token is the one the path names, and
\* then that row alone and nothing of it but the metadata; for every
\* other path a validated caller is answered 403 and no User row changes.
C38_OwnMetadataOnly ==
    [][response'.op = "update_user_metadata"
       => LET caller == get_current_user(response'.request_token, now)
              own == /\ caller.status = 200
                     /\ str(caller.user.id) = response'.user_id
          IN  /\ users' # users
                 => /\ own
                    /\ response'.status = 200
                    /\ users \ users' = {caller.user}
                    /\ \E u \in Written :
                          /\ Written = {u}
                          /\ u = [caller.user EXCEPT !.metadata = u.metadata]
              /\ (caller.status = 200 /\ ~own)
                 => /\ response'.status = 403
                    /\ users' = users
              /\ {u.id : u \in users'} = {u.id : u \in users}]_vars

\* Both branches have been taken: a user changed its own metadata, and a
\* step before it, or after, refused the other user's path
C38_Witness ==
    /\ response.op = "update_user_metadata"
    /\ response.status = 403
    /\ response.user_id \in {str(u.id) : u \in users}
    /\ \E u \in users : u.metadata # EmptyObject
    /\ \E u \in users : u.metadata = EmptyObject

----------------------------------------------------------------------------
(* Properties of the collections *)

\* The answers to the create_collection requests for a name
Created(name) ==
    {i \in 1..Len(replies) : /\ replies[i].op = "create_collection"
                             /\ replies[i].target = name}

\* C37: of the create_collection requests for one name that have been
\* answered, also of two that ran together, exactly one reports success,
\* every other reports the 409 conflict, and exactly one row holds the
\* name.
C37_OneCollectionPerName ==
    \A name \in Collections :
       Created(name) # {}
       => /\ Cardinality({i \in Created(name) : replies[i].status = 200}) = 1
          /\ \A i \in Created(name) : replies[i].status \in {200, 409}
          /\ Cardinality({c \in collections : c.name = name}) = 1

----------------------------------------------------------------------------
(* Properties of chunk_text *)

\* The call runs with 0 <= overlap < chunk_size
ValidParameters ==
    /\ 0 <= chunker.overlap
    /\ chunker.overlap < chunker.chunk_size

\* C18: with 0 <= overlap < chunk_size, every iteration of the loop leaves
\* the window start strictly greater than it found it (so that the loop
\* ends after at most len(text) iterations).
C18_StartIncreases ==
    [][(/\ ValidParameters
        /\ Len(chunker'.windows) > Len(chunker.windows))
       => chunker'.start > chunker.start]_vars

\* C19: chunk_text(text, 1000, 200) of a text of 2500 characters returns
\* exactly three chunks, none of them empty, cut from three windows of
\* which each starts before the one before it ends.
C19_ThreeChunks ==
    (/\ chunker.pc = "return"
     /\ Len(chunker.text) = 2500
     /\ chunker.chunk_size = 1000
     /\ chunker.overlap = 200)
    => /\ Len(chunker.chunks) = 3
       /\ \A i \in 1..Len(chunker.chunks) : chunker.chunks[i] # <<>>
       /\ Len(chunker.windows) = 3
       /\ \A i \in 1..(Len(chunker.windows) - 1) :
             chunker.windows[i + 1].start < chunker.windows[i].end

\* C20: every window cut so far that does not reach the end of the text
\* ends just after its rightmost '.' or newline b when there is one with
\* b >= start + chunk_size - overlap, and at start + chunk_size otherwise;
\* a window that reaches the end of the text ends at start + chunk_size.
C20_CutRule ==
    ValidParameters =>
    \A i \in 1..Len(chunker.windows) :
       LET w == chunker.windows[i]
           raw == w.start + chunker.chunk_size
           b == Max(rfind(chunker.text, ".", w.start, raw),
                    rfind(chunker.text, NL, w.start, raw))
       IN  IF raw < Len(chunker.text)
           THEN IF b # -1 /\ b >= w.start + chunker.chunk_size - chunker.overlap
                THEN w.end = b + 1
                ELSE w.end = raw
           ELSE w.end = raw

\* The elements of a sequence
Range(seq) == {seq[i] : i \in 1..Len(seq)}

\* The positions of the text that the slice text[start:end] is made of
Positions(text, start, end) ==
    SliceIndex(start, Len(text))..(SliceIndex(end, Len(text)) - 1)

\* C21: with overlap < chunk_size, no chunk collected is empty or made of
\* white space only; each window starts at or before the end of the one
\* before it, the first at 0; and when the call returns, every position of
\* the text that holds a character other than white space lies in the
\* window of a chunk that is returned.
C21_NoEmptyChunkNoGap ==
    ValidParameters =>
    /\ \A c \in Range(chunker.chunks) :
          \E k \in 1..Len(c) : c[k] \notin Whitespace
    /\ \A i \in 1..Len(chunker.windows) :
          chunker.windows[i].start <=
             (IF i = 1 THEN 0 ELSE chunker.windows[i - 1].end)
    /\ chunker.pc = "return"
          => LET returned ==
                    {w \in Range(chunker.windows) :
                        strip(Slice(chunker.text, w.start, w.end))
                           \in Range(chunker.chunks)}
                 covered ==
                    UNION {Positions(chunker.text, w.start, w.end) :
                              w \in returned}
             IN  \A p \in 0..(Len(chunker.text) - 1) :
                    chunker.text[p + 1] \notin Whitespace => p \in covered

\* C21 witness: a call has returned at least two chunks and dropped the
\* chunk of a window that held white space only.
C21_Witness ==
    /\ chunker.pc = "return"
    /\ ValidParameters
    /\ Len(chunker.chunks) >= 2
    /\ \E w \in Range(chunker.windows) :
          /\ Positions(chunker.text, w.start, w.end) # {}
          /\ strip(Slice(chunker.text, w.start, w.end)) = <<>>

\* C22: of every two consecutive windows, the later one starts exactly
\* overlap characters before the end of the earlier one, the end taken
\* after the break-point adjustment (and so does the window the loop is
\* about to cut); when both windows lie inside the text they have exactly
\* overlap positions in common.
C22_OverlapBetweenWindows ==
    LET n == Len(chunker.text)
        inside(w) == 0 <= w.start /\ w.end <= n
    IN  /\ \A i \in 1..(Len(chunker.windows) - 1) :
              LET a == chunker.windows[i]
                  b == chunker.windows[i + 1]
              IN  /\ b.start = a.end - chunker.overlap
                  /\ (inside(a) /\ inside(b))
                        => Cardinality((a.start..(a.end - 1))
                                          \cap (b.start..(b.end - 1)))
                              = chunker.overlap
        /\ chunker.windows # <<>>
              => chunker.start =
                    chunker.windows[Len(chunker.windows)].end - chunker.overlap

\* C22 witness: a window was cut short at a break point and the window
\* after it, further on and inside the text too, was cut with overlap > 0.
C22_Witness ==
    /\ chunker.overlap > 0
    /\ \E i \in 1..(Len(chunker.windows) - 1) :
          LET a == chunker.windows[i]
              b == chunker.windows[i + 1]
          IN  /\ a.end # a.start + chunker.chunk_size
              /\ b.start > a.start
              /\ 0 <= a.start /\ b.end <= Len(chunker.text)

\* The call runs with the parameters every caller passes
DefaultParameters ==
    /\ chunker.chunk_size = DEFAULT_CHUNK_SIZE
    /\ chunker.overlap = DEFAULT_OVERLAP

\* C33: with chunk_size 1000 and overlap 200 every iteration moves the
\* window start forward by at least 602 characters, cut at a break point
\* or not, so that after at most ceil(len(text) / 602) iterations the start
\* has passed the end of the text and the call returns; the loop is never
\* held by the iteration bound of the model.
C33_DefaultsTerminate ==
    DefaultParameters =>
       /\ \A i \in 1..Len(chunker.windows) :
             LET next == IF i < Len(chunker.windows)
                         THEN chunker.windows[i + 1].start
                         ELSE chunker.start
             IN  next - chunker.windows[i].start >= 602
       /\ Len(chunker.windows) <= (Len(chunker.text) + 601) \div 602
       /\ Len(chunker.windows) < MaxIterations

\* C33 witness: a call with the default parameters has returned after
\* more than one iteration, one of which was cut at a break point and moved
\* the start by exactly 602 characters.
C33_Witness ==
    /\ DefaultParameters
    /\ chunker.pc = "return"
    /\ \E i \in 1..(Len(chunker.windows) - 1) :
          /\ chunker.windows[i].end
                < chunker.windows[i].start + chunker.chunk_size
          /\ chunker.windows[i + 1].start - chunker.windows[i].start = 602

\* C34: every chunk collected is at most chunk_size characters long, is
\* the text between two positions of a window of the input text, and
\* neither starts nor ends with white space.
C34_ChunkIsStrippedSubstring ==
    \A i \in 1..Len(chunker.chunks) :
       LET chunk == chunker.chunks[i]
           n == Len(chunk)
       IN  /\ n <= chunker.chunk_size
           /\ n > 0 => /\ chunk[1] \notin Whitespace
                      /\ chunk[n] \notin Whitespace
           /\ \E w \in Range(chunker.windows) :
                 \E a \in Positions(chunker.text, w.start, w.end) :
                    /\ a + n <= SliceIndex(w.end, Len(chunker.text))
                    /\ n > 0 => chunker.text[a + 1] = chunk[1]
                    /\ SubSeq(chunker.text, a + 1, a + n) = chunk

\* C34 witness: a call has returned a chunk as long as chunk_size and a
\* chunk that is shorter than the slice of its window, which began or
\* ended with white space.
C34_Witness ==
    /\ chunker.pc = "return"
    /\ \E i \in 1..Len(chunker.chunks) :
          Len(chunker.chunks[i]) = chunker.chunk_size
    /\ \E i \in 1..Len(chunker.chunks) :
          \E w \in Range(chunker.windows) :
             LET slice == Slice(chunker.text, w.start, w.end)
             IN  /\ chunker.chunks[i] = strip(slice)
                 /\ Len(chunker.chunks[i]) < Len(slice)

=============================================================================
